---- MODULE Spec2Model ----
(***************************************************************************)
(* Access control of the gazeta.uz backend: the identity store with its    *)
(* bootstrap (PrismaService.seedSuperAdmin, SeedService), registration and *)
(* login, the user-management API (UserController / UserService) and the   *)
(* ownership checks of ArticleService and CommentService.                  *)
(*                                                                         *)
(* The database tables are the state.  There is one action per bootstrap   *)
(* step and per service method; `actor` is request.user of the request     *)
(* being served and `last` tells what the latest step was asked to do and  *)
(* how it ended.                                                           *)
(***************************************************************************)
EXTENDS Integers, FiniteSets, Sequences, TLC

\* ------------------------------------------------------------------ bounds
MaxUsers == 2
MaxArticles == 1
MaxComments == 1
NumBoot == 2
NumRegister == 2
MaxCategories == 1
MaxNewspapers == 1
MaxSlugs == 1
MaxInserts == 2
MaxViews == 2

\* --------------------------------------------------------------- constants
SUPER_ADMIN == "SUPER_ADMIN"
ADMIN == "ADMIN"
EDITOR == "EDITOR"
REPORTER == "REPORTER"
USER == "USER"

\* enum "Role" of the schema
Roles == {SUPER_ADMIN, ADMIN, EDITOR, REPORTER, USER}

\* an absent (undefined / empty) role, and a role string outside the enum
NoRole == ""
UnknownRole == "GUEST"

\* process.env.SUPER_ADMIN_EMAIL || 'admin@sirdaryohaqqiqati.uz'
SuperAdminEmail == "admin@sirdaryohaqqiqati.uz"

\* e-mail addresses requests may carry; NoEmail is an absent field
Emails == {SuperAdminEmail, "a@x.uz"}
NoEmail == ""

\* comment texts a payload may carry
Texts == {"t1", "t2"}

UserIds == 1..MaxUsers
ArticleIds == 1..MaxArticles
CommentIds == 1..MaxComments
RegisterIds == 1..NumRegister
CategoryIds == 1..MaxCategories
NewspaperIds == 1..MaxNewspapers
Slugs == 1..MaxSlugs
InsertedIds == 1..MaxInserts

VARIABLES
  users,          \* table "User": id -> [email, role]
  nextUserId,     \* sequence of "User".id
  articles,       \* table "Article": id -> [authorId, isPublished]
  nextArticleId,  \* sequence of "Article".id
  comments,       \* table "Comment": id -> [userId, articleId, text]
  nextCommentId,  \* sequence of "Comment".id
  tokens,         \* id -> role claim of the access token that identity holds
  pc,             \* per application instance: position in its start-up
  actor,          \* request.user of the request being served: [sub, role]
  inflight,       \* calls between two of their database statements
  categories,     \* table "Category": id ever given -> the row is stored
  newspapers,     \* table "Newspaper": id ever given -> the row is stored
  refs,           \* "Article": id -> [categoryId, newspaperId, slug], 0 for NULL
  viewCount,      \* "Article": id -> viewCount
  last            \* the latest step: what was asked and how it ended

vars == <<users, nextUserId, articles, nextArticleId, comments, nextCommentId,
          tokens, pc, actor, inflight, categories, newspapers, refs,
          viewCount, last>>

storeVars == <<users, nextUserId, articles, nextArticleId, comments,
               nextCommentId>>
contentVars == <<articles, nextArticleId, comments, nextCommentId>>
catalogVars == <<categories, newspapers, refs, viewCount>>

\* ----------------------------------------------------------------- helpers
SuperAdmins == {id \in DOMAIN users : users[id].role = SUPER_ADMIN}

\* prisma.user.findUnique({ where: { email } }) finds a row
EmailTaken(email) == \E id \in DOMAIN users : users[id].email = email

\* the unique index "User_email_key" without effect
NoUniqueIndex(email, except) == FALSE

\* the unique index "User_email_key": writing email into a row other than
\* `except` fails with P2002 when another row holds it
P2002(email, except) ==
  \E id \in DOMAIN users \ {except} : users[id].email = email

\* "Comment" without the rows of user id ("Comment_userId_fkey", ON DELETE
\* CASCADE)
CascadeUser(id) ==
  [c \in {x \in DOMAIN comments : comments[x].userId # id} |-> comments[c]]

\* "Comment" without the rows of article id ("Comment_articleId_fkey", ON
\* DELETE CASCADE)
CascadeArticle(id) ==
  [c \in {x \in DOMAIN comments : comments[x].articleId # id} |-> comments[c]]

\* the record a step leaves in `last`: the operation, the id of the target
\* row, the role field of the payload, the stage that answered (boot, guard
\* or service) and the outcome (ok or the class of the exception)
Req(op, target, role, stage, outcome) ==
  [op |-> op, target |-> target, role |-> role, stage |-> stage,
   outcome |-> outcome]

NoReq == Req("none", 0, NoRole, "none", "none")

\* jwtService.sign(payload): the claim set {sub, role} of an access token,
\* which JwtStrategy turns into request.user
Claims(sub, role) == [sub |-> sub, role |-> role]

\* request.user when no token was presented
NoActor == Claims(0, NoRole)

\* prisma.user.create: the row gets the next id of the sequence
InsertUser(email, role) ==
  /\ nextUserId <= MaxUsers
  /\ users' = users @@ (nextUserId :> [email |-> email, role |-> role])
  /\ nextUserId' = nextUserId + 1

\* ---------------------------------------------------------------- start-up
\* NestFactory.create: the instance starts (or is started again)
Start(i) ==
  /\ pc[i] \in {"down", "up", "crashed"}
  /\ pc' = [pc EXCEPT ![i] = "seedFind"]
  /\ last' = Req("start", 0, NoRole, "boot", "ok")
  /\ actor' = NoActor
  /\ UNCHANGED <<storeVars, tokens, inflight, catalogVars>>

\* seedSuperAdmin, the look-up by the configured e-mail
SeedFind(i) ==
  /\ pc[i] = "seedFind"
  /\ pc' = [pc EXCEPT ![i] = IF EmailTaken(SuperAdminEmail)
                               THEN "ensureFind" ELSE "seedCreate"]
  /\ last' = Req("seedFind", 0, NoRole, "boot", "ok")
  /\ actor' = NoActor
  /\ UNCHANGED <<storeVars, tokens, inflight, catalogVars>>

\* seedSuperAdmin, the insert; a unique-e-mail violation is caught and logged
\* by PrismaService.onModuleInit
SeedCreate(i) ==
  /\ pc[i] = "seedCreate"
  /\ pc' = [pc EXCEPT ![i] = "ensureFind"]
  /\ IF P2002(SuperAdminEmail, 0)
       THEN /\ last' = Req("seedCreate", 0, SUPER_ADMIN, "boot", "Conflict")
            /\ UNCHANGED <<users, nextUserId>>
       ELSE /\ InsertUser(SuperAdminEmail, SUPER_ADMIN)
            /\ last' = Req("seedCreate", nextUserId, SUPER_ADMIN, "boot", "ok")
  /\ actor' = NoActor
  /\ UNCHANGED <<contentVars, tokens, inflight, catalogVars>>

\* PrismaService.onModuleInit, catch (error): a failure of $connect or of a
\* query of seedSuperAdmin is logged and the start-up goes on
SeedError(i) ==
  /\ pc[i] \in {"seedFind", "seedCreate"}
  /\ pc' = [pc EXCEPT ![i] = "ensureFind"]
  /\ last' = Req("seedError", 0, NoRole, "boot", "Error")
  /\ actor' = NoActor
  /\ UNCHANGED <<storeVars, tokens, inflight, catalogVars>>

\* ensureSuperAdminExists, the look-up by role
EnsureFind(i) ==
  /\ pc[i] = "ensureFind"
  /\ pc' = [pc EXCEPT ![i] = IF SuperAdmins # {} THEN "up" ELSE "ensureCreate"]
  /\ last' = Req("ensureFind", 0, NoRole, "boot", "ok")
  /\ actor' = NoActor
  /\ UNCHANGED <<storeVars, tokens, inflight, catalogVars>>

\* ensureSuperAdminExists, the insert; an error is logged and thrown again,
\* which ends the start-up of the instance
EnsureCreate(i) ==
  /\ pc[i] = "ensureCreate"
  /\ IF P2002(SuperAdminEmail, 0)
       THEN /\ pc' = [pc EXCEPT ![i] = "crashed"]
            /\ last' = Req("ensureCreate", 0, SUPER_ADMIN, "boot", "Conflict")
            /\ UNCHANGED <<users, nextUserId>>
       ELSE /\ InsertUser(SuperAdminEmail, SUPER_ADMIN)
            /\ pc' = [pc EXCEPT ![i] = "up"]
            /\ last' = Req("ensureCreate", nextUserId, SUPER_ADMIN, "boot",
                           "ok")
  /\ actor' = NoActor
  /\ UNCHANGED <<contentVars, tokens, inflight, catalogVars>>

\* requests are served once an instance has finished its start-up
Serving == \E i \in DOMAIN pc : pc[i] = "up"

\* ------------------------------------------------------------ AuthService
\* the access tokens clients hold; each identity keeps the token of its latest
\* register or login
Tokens == {Claims(id, tokens[id]) : id \in DOMAIN tokens}

\* the token of identity id is replaced by a newly signed one
Issue(id, role) ==
  tokens' = [t \in DOMAIN tokens \cup {id} |->
               IF t = id THEN role ELSE tokens[t]]

\* register without the check of the SUPER_ADMIN role
AuthService_registerAnyRole(email, role) ==
  LET stored == IF role = NoRole THEN USER ELSE role
      req(target, outcome) ==
        Req("register", target, role, "service", outcome)
          @@ [email |-> email] IN
  /\ IF EmailTaken(email)
       THEN /\ last' = req(0, "Conflict")
            /\ UNCHANGED <<users, nextUserId, tokens>>
       ELSE /\ InsertUser(email, stored)
            /\ Issue(nextUserId, stored)
            /\ last' = req(nextUserId, "ok")
  /\ actor' = NoActor
  /\ UNCHANGED <<contentVars, pc, inflight, catalogVars>>

\* register that signs the role of the payload instead of the role of the
\* created row
AuthService_registerDtoRole(email, role) ==
  LET stored == IF role = NoRole THEN USER ELSE role
      req(target, outcome) ==
        Req("register", target, role, "service", outcome)
          @@ [email |-> email] IN
  /\ IF EmailTaken(email)
       THEN /\ last' = req(0, "Conflict")
            /\ UNCHANGED <<users, nextUserId, tokens>>
       ELSE IF role = SUPER_ADMIN
       THEN /\ last' = req(0, "Forbidden")
            /\ UNCHANGED <<users, nextUserId, tokens>>
       ELSE /\ InsertUser(email, stored)
            /\ Issue(nextUserId, role)
            /\ last' = req(nextUserId, "ok")
  /\ actor' = NoActor
  /\ UNCHANGED <<contentVars, pc, inflight, catalogVars>>

\* register(registerDto); RegisterDto.role defaults to USER; `last` also
\* keeps the e-mail of the payload
AuthService_register(email, role) ==
  LET stored == IF role = NoRole THEN USER ELSE role
      req(target, outcome) ==
        Req("register", target, role, "service", outcome)
          @@ [email |-> email] IN
  /\ IF EmailTaken(email)
       THEN /\ last' = req(0, "Conflict")
            /\ UNCHANGED <<users, nextUserId, tokens>>
       ELSE IF role = SUPER_ADMIN
       THEN /\ last' = req(0, "Forbidden")
            /\ UNCHANGED <<users, nextUserId, tokens>>
       ELSE /\ InsertUser(email, stored)
            /\ Issue(nextUserId, stored)
            /\ last' = req(nextUserId, "ok")
  /\ actor' = NoActor
  /\ UNCHANGED <<contentVars, pc, inflight, catalogVars>>

\* PrismaExceptionFilter with every error code in its default branch
PrismaExceptionFilterDefault(code) == "InternalServerError"

\* PrismaExceptionFilter.catch: the response to a Prisma error no handler
\* caught
PrismaExceptionFilter(code) ==
  CASE code = "P2002" -> "Conflict"
    [] code = "P2003" -> "BadRequest"
    [] code = "P2025" -> "NotFound"
    [] OTHER -> "InternalServerError"

\* a register call in flight: its payload, where it stands and how it ended
Call(email, role, stage, outcome) ==
  [email |-> email, role |-> role, stage |-> stage, outcome |-> outcome]

\* POST /auth/register, call r arrives
AuthService_register_begin(r) ==
  /\ Serving
  /\ r \notin DOMAIN inflight
  /\ \E email \in Emails, role \in Roles \cup {NoRole} :
       /\ inflight' = inflight @@ (r :> Call(email, role, "find", "none"))
       /\ last' = Req("registerBegin", 0, role, "service", "ok")
  /\ actor' = NoActor
  /\ UNCHANGED <<storeVars, tokens, pc, catalogVars>>

\* register, call r: the look-up by e-mail and the check of the role
AuthService_register_findUnique(r) ==
  /\ r \in DOMAIN inflight
  /\ inflight[r].stage = "find"
  /\ LET c == inflight[r]
         outcome == IF EmailTaken(c.email) THEN "Conflict"
                    ELSE IF c.role = SUPER_ADMIN THEN "Forbidden"
                    ELSE "none" IN
       /\ inflight' = [inflight EXCEPT ![r] =
                         Call(c.email, c.role,
                              IF outcome = "none" THEN "create" ELSE "done",
                              outcome)]
       /\ last' = Req("registerFind", 0, c.role, "service", outcome)
  /\ actor' = NoActor
  /\ UNCHANGED <<storeVars, tokens, pc, catalogVars>>

\* register, call r: the insert; P2002 is not caught by register and reaches
\* PrismaExceptionFilter
AuthService_register_create(r) ==
  /\ r \in DOMAIN inflight
  /\ inflight[r].stage = "create"
  /\ LET c == inflight[r]
         stored == IF c.role = NoRole THEN USER ELSE c.role IN
       IF P2002(c.email, 0)
         THEN /\ inflight' = [inflight EXCEPT ![r] =
                   Call(c.email, c.role, "done", PrismaExceptionFilter("P2002"))]
              /\ last' = Req("registerCreate", 0, c.role, "service",
                             PrismaExceptionFilter("P2002"))
              /\ UNCHANGED <<users, nextUserId, tokens>>
         ELSE /\ InsertUser(c.email, stored)
              /\ Issue(nextUserId, stored)
              /\ inflight' = [inflight EXCEPT ![r] =
                   Call(c.email, c.role, "done", "ok")]
              /\ last' = Req("registerCreate", nextUserId, c.role, "service",
                             "ok")
  /\ actor' = NoActor
  /\ UNCHANGED <<contentVars, pc, catalogVars>>

\* an exception as the client sees it: its class (the status) and its message
Thrown(class, message) == [class |-> class, message |-> message]

\* login with its own answer to an e-mail nobody holds
AuthService_loginUserNotFound(email, passwordValid) ==
  LET ids == {id \in DOMAIN users : users[id].email = email}
      req(target, thrown) ==
        Req("login", target, NoRole, "service", thrown.class)
          @@ [email |-> email, passwordValid |-> passwordValid,
              message |-> thrown.message] IN
  /\ IF ids = {}
       THEN /\ last' = req(0, Thrown("NotFound", "User not found"))
            /\ UNCHANGED tokens
       ELSE IF ~passwordValid
         THEN /\ last' = req(0, Thrown("Unauthorized", "Invalid credentials"))
              /\ UNCHANGED tokens
         ELSE \E id \in ids :
                /\ Issue(id, users[id].role)
                /\ last' = req(id, Thrown("ok", ""))
  /\ actor' = NoActor
  /\ UNCHANGED <<storeVars, pc, inflight, catalogVars>>

\* login(loginDto); passwordValid is the result of comparePasswords against
\* the stored hash. The look-up by e-mail and the comparison each throw their
\* own UnauthorizedException.
AuthService_login(email, passwordValid) ==
  LET ids == {id \in DOMAIN users : users[id].email = email}
      req(target, thrown) ==
        Req("login", target, NoRole, "service", thrown.class)
          @@ [email |-> email, passwordValid |-> passwordValid,
              message |-> thrown.message] IN
  /\ IF ids = {}
       THEN /\ last' = req(0, Thrown("Unauthorized", "Invalid credentials"))
            /\ UNCHANGED tokens
       ELSE IF ~passwordValid
         THEN /\ last' = req(0, Thrown("Unauthorized", "Invalid credentials"))
              /\ UNCHANGED tokens
         ELSE \E id \in ids :
                /\ Issue(id, users[id].role)
                /\ last' = req(id, Thrown("ok", ""))
  /\ actor' = NoActor
  /\ UNCHANGED <<storeVars, pc, inflight, catalogVars>>

\* ------------------------------------------------------------ UserService
\* an ADMIN row that also holds ADMIN
roleHierarchyAdminPeer ==
  [r \in Roles |->
     CASE r = SUPER_ADMIN -> {ADMIN, EDITOR, REPORTER, USER}
       [] r = ADMIN -> {ADMIN, EDITOR, REPORTER, USER}
       [] r = EDITOR -> {REPORTER, USER}
       [] r = REPORTER -> {USER}
       [] r = USER -> {}]

\* const roleHierarchy of validateRoleCreation
roleHierarchy ==
  [r \in Roles |->
     CASE r = SUPER_ADMIN -> {ADMIN, EDITOR, REPORTER, USER}
       [] r = ADMIN -> {EDITOR, REPORTER, USER}
       [] r = EDITOR -> {REPORTER, USER}
       [] r = REPORTER -> {USER}
       [] r = USER -> {}]

\* validateRoleCreation: TRUE when it returns, FALSE when it throws
validateRoleCreation(requestingUserRole, targetRole) ==
  IF targetRole = SUPER_ADMIN THEN FALSE
  ELSE IF requestingUserRole = NoRole THEN TRUE
  ELSE /\ requestingUserRole \in DOMAIN roleHierarchy
       /\ targetRole \in roleHierarchy[requestingUserRole]

\* validateRoleUpdate without its check of the new role
validateRoleUpdateAnyTarget(requestingUserRole, existingUserRole, targetRole, targetUserId, requestingUserId) ==
  IF requestingUserRole # SUPER_ADMIN THEN FALSE
  ELSE IF existingUserRole = SUPER_ADMIN THEN FALSE
  ELSE IF targetUserId = requestingUserId THEN FALSE
  ELSE TRUE

\* validateRoleUpdate without its check of the requesting role
validateRoleUpdateAnyActor(requestingUserRole, existingUserRole, targetRole, targetUserId, requestingUserId) ==
  IF targetRole = SUPER_ADMIN THEN FALSE
  ELSE IF existingUserRole = SUPER_ADMIN THEN FALSE
  ELSE IF targetUserId = requestingUserId THEN FALSE
  ELSE TRUE

\* validateRoleUpdate: TRUE when it returns, FALSE when it throws
validateRoleUpdate(requestingUserRole, existingUserRole, targetRole, targetUserId, requestingUserId) ==
  IF targetRole = SUPER_ADMIN THEN FALSE
  ELSE IF requestingUserRole # SUPER_ADMIN THEN FALSE
  ELSE IF existingUserRole = SUPER_ADMIN THEN FALSE
  ELSE IF targetUserId = requestingUserId THEN FALSE
  ELSE TRUE

\* create(createUserDto, requestingUserId, requestingUserRole);
\* `requestingUserRole || ''` turns an absent role into NoRole
UserService_create(dto, requestingUserId, requestingUserRole) ==
  /\ IF ~validateRoleCreation(requestingUserRole, dto.role)
       THEN /\ last' = Req("userCreate", 0, dto.role, "service", "Forbidden")
            /\ UNCHANGED <<users, nextUserId>>
       ELSE IF P2002(dto.email, 0)
       THEN /\ last' = Req("userCreate", 0, dto.role, "service", "Conflict")
            /\ UNCHANGED <<users, nextUserId>>
       ELSE /\ InsertUser(dto.email, dto.role)
            /\ last' = Req("userCreate", nextUserId, dto.role, "service", "ok")
  /\ UNCHANGED <<contentVars, tokens, pc, inflight, catalogVars, actor>>

\* the checks of update without the one that follows validateRoleUpdate
UpdateCheckSelfRole(id, dto, requestingUserId, requestingUserRole) ==
  IF id \notin DOMAIN users THEN "NotFound"
  ELSE IF users[id].role = SUPER_ADMIN /\ requestingUserRole # SUPER_ADMIN
    THEN "Forbidden"
  ELSE IF /\ dto.role # NoRole
          /\ dto.role # users[id].role
          /\ ~validateRoleUpdate(requestingUserRole, users[id].role, dto.role,
                                 id, requestingUserId)
    THEN "Forbidden"
  ELSE IF dto.email # NoEmail /\ P2002(dto.email, id) THEN "Conflict"
  ELSE "ok"

\* the checks of update without the one of a SUPER_ADMIN target
UpdateCheckAnyTarget(id, dto, requestingUserId, requestingUserRole) ==
  IF id \notin DOMAIN users THEN "NotFound"
  ELSE IF /\ dto.role # NoRole
          /\ dto.role # users[id].role
          /\ ~validateRoleUpdate(requestingUserRole, users[id].role, dto.role,
                                 id, requestingUserId)
    THEN "Forbidden"
  ELSE IF id = requestingUserId /\ dto.role # NoRole THEN "Forbidden"
  ELSE IF dto.email # NoEmail /\ P2002(dto.email, id) THEN "Conflict"
  ELSE "ok"

\* update: the checks it makes and the write, as the outcome they end in
UpdateCheck(id, dto, requestingUserId, requestingUserRole) ==
  IF id \notin DOMAIN users THEN "NotFound"
  ELSE IF users[id].role = SUPER_ADMIN /\ requestingUserRole # SUPER_ADMIN
    THEN "Forbidden"
  ELSE IF /\ dto.role # NoRole
          /\ dto.role # users[id].role
          /\ ~validateRoleUpdate(requestingUserRole, users[id].role, dto.role,
                                 id, requestingUserId)
    THEN "Forbidden"
  ELSE IF id = requestingUserId /\ dto.role # NoRole THEN "Forbidden"
  ELSE IF dto.email # NoEmail /\ P2002(dto.email, id) THEN "Conflict"
  ELSE "ok"

\* update that writes the e-mail of the payload before it checks the role
UserService_updateEmailFirst(id, dto, requestingUserId, requestingUserRole) ==
  LET outcome == UpdateCheck(id, dto, requestingUserId, requestingUserRole)
      row == [email |-> IF dto.email = NoEmail THEN users[id].email
                        ELSE dto.email,
              role |-> IF dto.role = NoRole THEN users[id].role
                       ELSE dto.role]
      early == [email |-> IF dto.email = NoEmail \/ P2002(dto.email, id)
                            THEN users[id].email
                          ELSE dto.email,
                role |-> users[id].role] IN
  /\ last' = Req("userUpdate", id, dto.role, "service", outcome)
  /\ users' = IF outcome = "ok" THEN [users EXCEPT ![id] = row]
              ELSE IF outcome = "Forbidden" THEN [users EXCEPT ![id] = early]
              ELSE users
  /\ UNCHANGED <<nextUserId, contentVars, tokens, pc, inflight, catalogVars, actor>>

\* update(id, updateUserDto, requestingUserId, requestingUserRole)
UserService_update(id, dto, requestingUserId, requestingUserRole) ==
  LET outcome == UpdateCheck(id, dto, requestingUserId, requestingUserRole)
      row == [email |-> IF dto.email = NoEmail THEN users[id].email
                        ELSE dto.email,
              role |-> IF dto.role = NoRole THEN users[id].role
                       ELSE dto.role] IN
  /\ last' = Req("userUpdate", id, dto.role, "service", outcome)
  /\ users' = IF outcome = "ok" THEN [users EXCEPT ![id] = row] ELSE users
  /\ UNCHANGED <<nextUserId, contentVars, tokens, pc, inflight, catalogVars, actor>>

\* the checks of remove without the one of the SUPER_ADMIN role
RemoveCheckAnyRole(id, requestingUserId, requestingUserRole) ==
  IF id \notin DOMAIN users THEN "NotFound"
  ELSE IF id = requestingUserId THEN "Forbidden"
  ELSE IF \E a \in DOMAIN articles : articles[a].authorId = id
    THEN "BadRequest"
  ELSE "ok"

\* the checks of remove without the one of the own account
RemoveCheckSelf(id, requestingUserId, requestingUserRole) ==
  IF id \notin DOMAIN users THEN "NotFound"
  ELSE IF users[id].role = SUPER_ADMIN THEN "Forbidden"
  ELSE IF \E a \in DOMAIN articles : articles[a].authorId = id
    THEN "BadRequest"
  ELSE "ok"

\* remove: the checks it makes and the delete, as the outcome they end in;
\* "Article_authorId_fkey" (ON DELETE RESTRICT) fails the delete with P2003
RemoveCheck(id, requestingUserId, requestingUserRole) ==
  IF id \notin DOMAIN users THEN "NotFound"
  ELSE IF users[id].role = SUPER_ADMIN THEN "Forbidden"
  ELSE IF id = requestingUserId THEN "Forbidden"
  ELSE IF \E a \in DOMAIN articles : articles[a].authorId = id
    THEN "BadRequest"
  ELSE "ok"

\* remove(id, requestingUserId, requestingUserRole); "Comment_userId_fkey"
\* (ON DELETE CASCADE) deletes the comments of the user
UserService_remove(id, requestingUserId, requestingUserRole) ==
  LET outcome == RemoveCheck(id, requestingUserId, requestingUserRole) IN
  /\ last' = Req("userRemove", id, NoRole, "service", outcome)
  /\ IF outcome = "ok"
       THEN /\ users' = [u \in DOMAIN users \ {id} |-> users[u]]
            /\ comments' = CascadeUser(id)
       ELSE UNCHANGED <<users, comments>>
  /\ UNCHANGED <<nextUserId, articles, nextArticleId, nextCommentId, tokens,
                 pc, inflight, catalogVars, actor>>

\* --------------------------------------------------------- ArticleService
\* create(createArticleDto, authorId); dto.refsFound is the result of the
\* look-ups of the category and the newspaper the payload names
ArticleService_create(dto, authorId) ==
  /\ IF ~dto.refsFound \/ authorId \notin DOMAIN users
       THEN /\ last' = Req("articleCreate", 0, NoRole, "service", "NotFound")
            /\ UNCHANGED <<articles, nextArticleId>>
       ELSE /\ nextArticleId <= MaxArticles
            /\ articles' = articles @@
                 (nextArticleId :> [authorId |-> authorId,
                                    isPublished |-> dto.isPublished])
            /\ nextArticleId' = nextArticleId + 1
            /\ last' = Req("articleCreate", nextArticleId, NoRole, "service",
                           "ok")
  /\ UNCHANGED <<users, nextUserId, comments, nextCommentId, tokens, pc, inflight, catalogVars,
                 actor>>

\* the check of update and remove without the EDITOR role
ArticleAccessNoEditor(id, requestingUserId, requestingUserRole) ==
  ~ (/\ requestingUserRole # SUPER_ADMIN
     /\ requestingUserRole # ADMIN
     /\ articles[id].authorId # requestingUserId)

\* the check of update and remove: the requesting user holds one of the three
\* roles or is the author
ArticleAccess(id, requestingUserId, requestingUserRole) ==
  ~ (/\ requestingUserRole # SUPER_ADMIN
     /\ requestingUserRole # ADMIN
     /\ requestingUserRole # EDITOR
     /\ articles[id].authorId # requestingUserId)

\* update that stores the requesting user as the author, as create does
ArticleService_updateAsAuthor(id, dto, requestingUserId, requestingUserRole) ==
  LET outcome ==
        IF id \notin DOMAIN articles THEN "NotFound"
        ELSE IF ~ArticleAccess(id, requestingUserId, requestingUserRole)
          THEN "BadRequest"
        ELSE IF ~dto.refsFound THEN "NotFound"
        ELSE IF dto.hasAuthorId /\ dto.authorId \notin DOMAIN users
          THEN "BadRequest"
        ELSE "ok"
      row == [authorId |-> requestingUserId,
              isPublished |-> IF dto.hasIsPublished THEN dto.isPublished
                              ELSE articles[id].isPublished] IN
  /\ last' = Req("articleUpdate", id, NoRole, "service", outcome)
  /\ articles' = IF outcome = "ok" THEN [articles EXCEPT ![id] = row]
                 ELSE articles
  /\ UNCHANGED <<users, nextUserId, nextArticleId, comments, nextCommentId,
                 tokens, pc, inflight, catalogVars, actor>>

\* update(id, updateArticleDto, requestingUserId, requestingUserRole): the
\* payload is written as it is (data: updateArticleDto); dto.hasIsPublished
\* and dto.hasAuthorId tell whether it carries the field; a payload authorId
\* without a row in "User" fails on "Article_authorId_fkey" (P2003)
ArticleService_update(id, dto, requestingUserId, requestingUserRole) ==
  LET outcome ==
        IF id \notin DOMAIN articles THEN "NotFound"
        ELSE IF ~ArticleAccess(id, requestingUserId, requestingUserRole)
          THEN "BadRequest"
        ELSE IF ~dto.refsFound THEN "NotFound"
        ELSE IF dto.hasAuthorId /\ dto.authorId \notin DOMAIN users
          THEN "BadRequest"
        ELSE "ok"
      row == [authorId |-> IF dto.hasAuthorId THEN dto.authorId
                           ELSE articles[id].authorId,
              isPublished |-> IF dto.hasIsPublished THEN dto.isPublished
                              ELSE articles[id].isPublished] IN
  /\ last' = Req("articleUpdate", id, NoRole, "service", outcome)
  /\ articles' = IF outcome = "ok" THEN [articles EXCEPT ![id] = row]
                 ELSE articles
  /\ UNCHANGED <<users, nextUserId, nextArticleId, comments, nextCommentId,
                 tokens, pc, inflight, catalogVars, actor>>

\* remove(id, requestingUserId, requestingUserRole); "Comment_articleId_fkey"
\* (ON DELETE CASCADE) deletes the comments of the article
ArticleService_remove(id, requestingUserId, requestingUserRole) ==
  LET outcome ==
        IF id \notin DOMAIN articles THEN "NotFound"
        ELSE IF ~ArticleAccess(id, requestingUserId, requestingUserRole)
          THEN "BadRequest"
        ELSE "ok" IN
  /\ last' = Req("articleRemove", id, NoRole, "service", outcome)
  /\ IF outcome = "ok"
       THEN /\ articles' = [a \in DOMAIN articles \ {id} |-> articles[a]]
            /\ comments' = CascadeArticle(id)
            /\ refs' = [a \in DOMAIN refs \ {id} |-> refs[a]]
            /\ viewCount' = [a \in DOMAIN viewCount \ {id} |-> viewCount[a]]
       ELSE UNCHANGED <<articles, comments, refs, viewCount>>
  /\ UNCHANGED <<users, nextUserId, nextArticleId, nextCommentId, tokens, pc,
                 inflight, categories, newspapers, actor>>

\* --------------------------------------------------------- CommentService
\* create(userId, createCommentDto)
CommentService_create(userId, dto) ==
  /\ IF \/ userId \notin DOMAIN users
        \/ dto.articleId \notin DOMAIN articles
        \/ ~articles[dto.articleId].isPublished
       THEN /\ last' = Req("commentCreate", 0, NoRole, "service", "NotFound")
            /\ UNCHANGED <<comments, nextCommentId>>
       ELSE /\ nextCommentId <= MaxComments
            /\ comments' = comments @@
                 (nextCommentId :> [userId |-> userId,
                                    articleId |-> dto.articleId,
                                    text |-> dto.text])
            /\ nextCommentId' = nextCommentId + 1
            /\ last' = Req("commentCreate", nextCommentId, NoRole, "service",
                           "ok")
  /\ UNCHANGED <<users, nextUserId, articles, nextArticleId, tokens, pc, inflight, catalogVars,
                 actor>>

\* the check of update without the EDITOR role
CommentUpdateAccessNoEditor(id, userId) ==
  \/ comments[id].userId = userId
  \/ /\ userId \in DOMAIN users
     /\ ~ (/\ users[userId].role # ADMIN
           /\ users[userId].role # SUPER_ADMIN)

\* the check of update: the comment is the user's own, or the user is stored
\* with one of the three roles
CommentUpdateAccess(id, userId) ==
  \/ comments[id].userId = userId
  \/ /\ userId \in DOMAIN users
     /\ ~ (/\ users[userId].role # ADMIN
           /\ users[userId].role # EDITOR
           /\ users[userId].role # SUPER_ADMIN)

\* update(id, userId, updateCommentDto)
CommentService_update(id, userId, dto) ==
  LET outcome ==
        IF id \notin DOMAIN comments THEN "NotFound"
        ELSE IF ~CommentUpdateAccess(id, userId) THEN "Forbidden"
        ELSE "ok" IN
  /\ last' = Req("commentUpdate", id, NoRole, "service", outcome)
  /\ comments' = IF outcome = "ok"
                   THEN [comments EXCEPT ![id].text = dto.text]
                   ELSE comments
  /\ UNCHANGED <<users, nextUserId, articles, nextArticleId, nextCommentId,
                 tokens, pc, inflight, catalogVars, actor>>

\* the check of remove: SUPER_ADMIN as passed role, the user's own comment, or
\* ADMIN / EDITOR as stored role
CommentRemoveAccess(id, userId, userRole) ==
  \/ userRole = SUPER_ADMIN
  \/ comments[id].userId = userId
  \/ /\ userId \in DOMAIN users
     /\ ~ (users[userId].role # ADMIN /\ users[userId].role # EDITOR)

\* remove(id, userId, userRole), entered by the handler of endpoint op
CommentService_removeBy(op, id, userId, userRole) ==
  LET outcome ==
        IF id \notin DOMAIN comments THEN "NotFound"
        ELSE IF ~CommentRemoveAccess(id, userId, userRole) THEN "Forbidden"
        ELSE "ok" IN
  /\ last' = Req(op, id, NoRole, "service", outcome)
  /\ comments' = IF outcome = "ok"
                   THEN [c \in DOMAIN comments \ {id} |-> comments[c]]
                   ELSE comments
  /\ UNCHANGED <<users, nextUserId, articles, nextArticleId, nextCommentId,
                 tokens, pc, inflight, catalogVars, actor>>

\* remove(id, userId, userRole)
CommentService_remove(id, userId, userRole) ==
  CommentService_removeBy("commentRemove", id, userId, userRole)

\* -------------------------------------------------------- CategoryService
\* the categories stored; the ids of deleted rows are not given again
StoredCategories == {c \in DOMAIN categories : categories[c]}

\* the articles whose categoryId is c
ArticlesOfCategory(c) == {a \in DOMAIN refs : refs[a].categoryId = c}

\* create(createCategoryDto); dto.slugTaken: a stored category has the slug
CategoryService_create(dto) ==
  LET id == Cardinality(DOMAIN categories) + 1
      outcome == IF dto.slugTaken /\ StoredCategories # {} THEN "Conflict"
                 ELSE "ok" IN
  /\ outcome = "ok" => id <= MaxCategories
  /\ last' = Req("categoryCreate", IF outcome = "ok" THEN id ELSE 0, NoRole,
                 "service", outcome)
  /\ categories' = IF outcome = "ok" THEN categories @@ (id :> TRUE)
                   ELSE categories
  /\ UNCHANGED <<storeVars, tokens, pc, inflight, actor, newspapers, refs,
                 viewCount>>

\* update(id, updateCategoryDto); dto.slugTaken: another stored category has
\* the slug of the payload; a missing row fails the update with P2025
CategoryService_update(id, dto) ==
  LET outcome ==
        IF dto.slugTaken /\ StoredCategories \ {id} # {} THEN "Conflict"
        ELSE IF id \notin StoredCategories THEN "NotFound"
        ELSE "ok" IN
  /\ last' = Req("categoryUpdate", id, NoRole, "service", outcome)
  /\ UNCHANGED <<storeVars, tokens, pc, inflight, actor, catalogVars>>

\* remove(id) with nothing between its statements; "Article_categoryId_fkey"
\* is ON DELETE RESTRICT
CategoryService_remove(id) ==
  LET outcome ==
        IF id \notin StoredCategories THEN "NotFound"
        ELSE IF ArticlesOfCategory(id) # {} THEN "Conflict"
        ELSE "ok" IN
  /\ last' = Req("categoryRemove", id, NoRole, "service", outcome)
  /\ categories' = IF outcome = "ok" THEN [categories EXCEPT ![id] = FALSE]
                   ELSE categories
  /\ UNCHANGED <<storeVars, tokens, pc, inflight, actor, newspapers, refs,
                 viewCount>>

\* ------------------------------------------- the catalog, statement by statement
\* the catch block the services of the catalog share
ServiceCatch(code) ==
  CASE code = "P2002" -> "Conflict"
    [] code = "P2003" -> "BadRequest"
    [] code = "P2025" -> "NotFound"
    [] OTHER -> "BadRequest"

StoredNewspapers == {n \in DOMAIN newspapers : newspapers[n]}

\* the articles whose newspaperId is n
ArticlesOfNewspaper(n) == {a \in DOMAIN refs : refs[a].newspaperId = n}

\* a call of the catalog between two of its statements: the id of its path or
\* its author, the references and the slug of its payload (0: none) and the
\* statement it runs next
Step(id, categoryId, newspaperId, slug, stage) ==
  [id |-> id, categoryId |-> categoryId, newspaperId |-> newspaperId,
   slug |-> slug, stage |-> stage]

\* call k goes on to its next statement
Await(k, c, stage) ==
  /\ inflight' = [j \in DOMAIN inflight \cup {k} |->
                    IF j = k
                      THEN Step(c.id, c.categoryId, c.newspaperId, c.slug, stage)
                    ELSE inflight[j]]
  /\ last' = Req(k, c.id, NoRole, stage, "none")

\* call k returns or throws
Return(k, target, outcome) ==
  /\ inflight' = [j \in DOMAIN inflight \ {k} |-> inflight[j]]
  /\ last' = Req(k, target, NoRole, "service", outcome)

\* call k stands before the statement named
At(k, stage) == k \in DOMAIN inflight /\ inflight[k].stage = stage

\* NewspaperService.create
NewspaperService_create ==
  LET id == Cardinality(DOMAIN newspapers) + 1 IN
  /\ id <= MaxNewspapers
  /\ newspapers' = newspapers @@ (id :> TRUE)
  /\ last' = Req("newspaperCreate", id, NoRole, "service", "ok")
  /\ UNCHANGED <<storeVars, tokens, pc, inflight, actor, categories, refs,
                 viewCount>>

\* CategoryService.remove(id): prisma.category.findUnique
CategoryService_remove_findUnique ==
  /\ "categoryRemove" \notin DOMAIN inflight
  /\ \E id \in CategoryIds :
       IF id \notin StoredCategories
         THEN Return("categoryRemove", id, "NotFound")
         ELSE Await("categoryRemove", Step(id, 0, 0, 0, "find"), "count")
  /\ UNCHANGED <<storeVars, tokens, pc, actor, catalogVars>>

\* CategoryService.remove(id): prisma.article.count
CategoryService_remove_count ==
  /\ At("categoryRemove", "count")
  /\ LET c == inflight["categoryRemove"] IN
       IF ArticlesOfCategory(c.id) # {}
         THEN Return("categoryRemove", c.id, "Conflict")
         ELSE Await("categoryRemove", c, "delete")
  /\ UNCHANGED <<storeVars, tokens, pc, actor, catalogVars>>

\* the row of category id cannot be deleted: it is gone, or
\* "Article_categoryId_fkey" (ON DELETE RESTRICT) holds it
CategoryDeleteError(id) ==
  IF id \notin StoredCategories THEN "P2025"
  ELSE IF ArticlesOfCategory(id) # {} THEN "P2003"
  ELSE "none"

\* CategoryService.remove(id): prisma.category.delete
CategoryService_remove_delete ==
  /\ At("categoryRemove", "delete")
  /\ LET c == inflight["categoryRemove"]
         code == CategoryDeleteError(c.id) IN
       IF code # "none"
         THEN /\ Return("categoryRemove", c.id, ServiceCatch(code))
              /\ UNCHANGED categories
         ELSE /\ categories' = [categories EXCEPT ![c.id] = FALSE]
              /\ Return("categoryRemove", c.id, "ok")
  /\ UNCHANGED <<storeVars, tokens, pc, actor, newspapers, refs, viewCount>>

\* NewspaperService.remove(id): prisma.newspaper.findUnique
NewspaperService_remove_findUnique ==
  /\ "newspaperRemove" \notin DOMAIN inflight
  /\ \E id \in NewspaperIds :
       IF id \notin StoredNewspapers
         THEN Return("newspaperRemove", id, "NotFound")
         ELSE Await("newspaperRemove", Step(id, 0, 0, 0, "find"), "count")
  /\ UNCHANGED <<storeVars, tokens, pc, actor, catalogVars>>

\* NewspaperService.remove(id): prisma.article.count
NewspaperService_remove_count ==
  /\ At("newspaperRemove", "count")
  /\ LET c == inflight["newspaperRemove"] IN
       IF ArticlesOfNewspaper(c.id) # {}
         THEN Return("newspaperRemove", c.id, "Conflict")
         ELSE Await("newspaperRemove", c, "delete")
  /\ UNCHANGED <<storeVars, tokens, pc, actor, catalogVars>>

\* "Article_newspaperId_fkey" is ON DELETE SET NULL: the articles of the
\* newspaper deleted keep their rows and lose the reference
SetNull(n) ==
  [a \in DOMAIN refs |->
     IF refs[a].newspaperId = n THEN [refs[a] EXCEPT !.newspaperId = 0]
     ELSE refs[a]]

\* NewspaperService.remove(id): prisma.newspaper.delete
NewspaperService_remove_delete ==
  /\ At("newspaperRemove", "delete")
  /\ LET c == inflight["newspaperRemove"] IN
       IF c.id \notin StoredNewspapers
         THEN /\ Return("newspaperRemove", c.id, ServiceCatch("P2025"))
              /\ UNCHANGED <<newspapers, refs>>
         ELSE /\ newspapers' = [newspapers EXCEPT ![c.id] = FALSE]
              /\ refs' = SetNull(c.id)
              /\ Return("newspaperRemove", c.id, "ok")
  /\ UNCHANGED <<storeVars, tokens, pc, actor, categories, viewCount>>

\* the foreign keys of "Article" refuse a row with these references
ArticleForeignKeyFails(authorId, categoryId, newspaperId) ==
  \/ authorId \notin DOMAIN users
  \/ categoryId # 0 /\ categoryId \notin StoredCategories
  \/ newspaperId # 0 /\ newspaperId \notin StoredNewspapers

\* ArticleService.create(dto, authorId): the look-ups of the category and of
\* the author; categoryId is required by CreateArticleDto
ArticleService_create_category ==
  /\ "articleCreate" \notin DOMAIN inflight
  /\ nextArticleId <= MaxInserts
  /\ \E authorId \in UserIds, categoryId \in CategoryIds,
        newspaperId \in NewspaperIds \cup {0}, slug \in Slugs :
       IF categoryId \notin StoredCategories \/ authorId \notin DOMAIN users
         THEN Return("articleCreate", 0, "NotFound")
         ELSE Await("articleCreate",
                    Step(authorId, categoryId, newspaperId, slug, "category"),
                    "newspaper")
  /\ UNCHANGED <<storeVars, tokens, pc, actor, catalogVars>>

\* ArticleService.create: the look-up of the newspaper, if the payload has one
ArticleService_create_newspaper ==
  /\ At("articleCreate", "newspaper")
  /\ LET c == inflight["articleCreate"] IN
       IF c.newspaperId # 0 /\ c.newspaperId \notin StoredNewspapers
         THEN Return("articleCreate", 0, "NotFound")
         ELSE Await("articleCreate", c, "insert")
  /\ UNCHANGED <<storeVars, tokens, pc, actor, catalogVars>>

\* the stored articles whose slug is the one given; "Article_slug_key" keeps
\* them at most one
ArticlesOfSlug(slug) == {a \in DOMAIN refs : refs[a].slug = slug}

\* ArticleService.create: prisma.article.create with viewCount 0
ArticleService_create_insert ==
  /\ At("articleCreate", "insert")
  /\ LET c == inflight["articleCreate"] IN
       IF ArticlesOfSlug(c.slug) # {}
         THEN /\ Return("articleCreate", 0, ServiceCatch("P2002"))
              /\ UNCHANGED <<articles, nextArticleId, refs, viewCount>>
       ELSE IF ArticleForeignKeyFails(c.id, c.categoryId, c.newspaperId)
         THEN /\ Return("articleCreate", 0, ServiceCatch("P2003"))
              /\ UNCHANGED <<articles, nextArticleId, refs, viewCount>>
         ELSE /\ articles' = articles @@
                   (nextArticleId :> [authorId |-> c.id, isPublished |-> FALSE])
              /\ nextArticleId' = nextArticleId + 1
              /\ refs' = refs @@
                   (nextArticleId :> [categoryId |-> c.categoryId,
                                      newspaperId |-> c.newspaperId,
                                      slug |-> c.slug])
              /\ viewCount' = viewCount @@ (nextArticleId :> 0)
              /\ Return("articleCreate", nextArticleId, "ok")
  /\ UNCHANGED <<users, nextUserId, comments, nextCommentId, tokens, pc, actor,
                 categories, newspapers>>

\* ArticleService.update(id, dto, requestingUserId, requestingUserRole): the
\* look-up of the article, the check of the requester and the look-up of the
\* category, if the payload has one (0: it has none)
ArticleService_update_category ==
  /\ "articleUpdate" \notin DOMAIN inflight
  /\ \E id \in InsertedIds, categoryId \in CategoryIds \cup {0},
        newspaperId \in NewspaperIds \cup {0}, requestingUserId \in UserIds,
        requestingUserRole \in {ADMIN, USER} :
       IF id \notin DOMAIN articles
         THEN Return("articleUpdate", id, "NotFound")
       ELSE IF ~ArticleAccess(id, requestingUserId, requestingUserRole)
         THEN Return("articleUpdate", id, "BadRequest")
       ELSE IF categoryId # 0 /\ categoryId \notin StoredCategories
         THEN Return("articleUpdate", id, "NotFound")
       ELSE Await("articleUpdate",
                  Step(id, categoryId, newspaperId, 0, "category"), "newspaper")
  /\ UNCHANGED <<storeVars, tokens, pc, actor, catalogVars>>

\* ArticleService.update: the look-up of the newspaper, if the payload has one
ArticleService_update_newspaper ==
  /\ At("articleUpdate", "newspaper")
  /\ LET c == inflight["articleUpdate"] IN
       IF c.newspaperId # 0 /\ c.newspaperId \notin StoredNewspapers
         THEN Return("articleUpdate", c.id, "NotFound")
         ELSE Await("articleUpdate", c, "write")
  /\ UNCHANGED <<storeVars, tokens, pc, actor, catalogVars>>

\* ArticleService.update: prisma.article.update
ArticleService_update_write ==
  /\ At("articleUpdate", "write")
  /\ LET c == inflight["articleUpdate"] IN
       IF c.id \notin DOMAIN articles
         THEN /\ Return("articleUpdate", c.id, ServiceCatch("P2025"))
              /\ UNCHANGED refs
       ELSE IF ArticleForeignKeyFails(articles[c.id].authorId, c.categoryId, c.newspaperId)
         THEN /\ Return("articleUpdate", c.id, ServiceCatch("P2003"))
              /\ UNCHANGED refs
       ELSE /\ refs' = [refs EXCEPT ![c.id] =
                  [categoryId |-> IF c.categoryId # 0 THEN c.categoryId
                                  ELSE @.categoryId,
                   newspaperId |-> IF c.newspaperId # 0 THEN c.newspaperId
                                   ELSE @.newspaperId,
                   slug |-> @.slug]]
            /\ Return("articleUpdate", c.id, "ok")
  /\ UNCHANGED <<storeVars, tokens, pc, actor, categories, newspapers,
                 viewCount>>

\* the article a read has found: its id, the slug it was asked for (0: it was
\* asked for by id), the viewCount of the row it read
Found(id, slug, views) ==
  [id |-> id, slug |-> slug, viewCount |-> views, stage |-> "increment"]

\* data: { viewCount: { increment: 1 } } on the row of article a
IncrementStored(c, a) == viewCount' = [viewCount EXCEPT ![a] = @ + 1]

\* ArticleService.findOne(id): prisma.article.findUnique
ArticleService_findOne_findUnique ==
  /\ "findOne" \notin DOMAIN inflight
  /\ \E id \in InsertedIds :
       IF id \notin DOMAIN viewCount
         THEN Return("findOne", id, "NotFound")
         ELSE /\ inflight' = inflight @@
                   ("findOne" :> Found(id, 0, viewCount[id]))
              /\ last' = Req("findOne", id, NoRole, "increment", "none")
  /\ UNCHANGED <<storeVars, tokens, pc, actor, catalogVars>>

\* ArticleService.findOne(id): prisma.article.update where { id }
ArticleService_findOne_update ==
  /\ At("findOne", "increment")
  /\ LET c == inflight["findOne"] IN
       IF c.id \notin DOMAIN viewCount
         THEN /\ Return("findOne", c.id, ServiceCatch("P2025"))
              /\ UNCHANGED viewCount
         ELSE /\ viewCount[c.id] < MaxViews
              /\ IncrementStored(c, c.id)
              /\ Return("findOne", c.id, "ok")
  /\ UNCHANGED <<storeVars, tokens, pc, actor, categories, newspapers, refs>>

\* ArticleService.findBySlug(slug): prisma.article.findUnique
ArticleService_findBySlug_findUnique ==
  /\ "findBySlug" \notin DOMAIN inflight
  /\ \E slug \in Slugs :
       IF ArticlesOfSlug(slug) = {}
         THEN Return("findBySlug", 0, "NotFound")
         ELSE LET a == CHOOSE a \in ArticlesOfSlug(slug) : TRUE IN
              /\ inflight' = inflight @@
                   ("findBySlug" :> Found(a, slug, viewCount[a]))
              /\ last' = Req("findBySlug", a, NoRole, "increment", "none")
  /\ UNCHANGED <<storeVars, tokens, pc, actor, catalogVars>>

\* ArticleService.findBySlug(slug): prisma.article.update where { slug }; the
\* call returns the article it has found
ArticleService_findBySlug_update ==
  /\ At("findBySlug", "increment")
  /\ LET c == inflight["findBySlug"] IN
       IF ArticlesOfSlug(c.slug) = {}
         THEN /\ Return("findBySlug", c.id, ServiceCatch("P2025"))
              /\ UNCHANGED viewCount
         ELSE LET a == CHOOSE a \in ArticlesOfSlug(c.slug) : TRUE IN
              /\ viewCount[a] < MaxViews
              /\ IncrementStored(c, a)
              /\ Return("findBySlug", c.id, "ok")
  /\ UNCHANGED <<storeVars, tokens, pc, actor, categories, newspapers, refs>>

CategoryDtos == [slugTaken : BOOLEAN]

\* CategoryService.create called with any payload
CallCategoryCreate ==
  /\ Serving
  /\ \E dto \in CategoryDtos : CategoryService_create(dto)

\* ------------------------------------------------------------ request layer
\* RolesGuard.canActivate: a handler without @Roles admits every
\* authenticated user, a handler with @Roles those whose role it lists
RolesGuard(required, role) == required = {} \/ role \in required

\* the guard's refusal of a request
Refuse(op, target, role) ==
  /\ last' = Req(op, target, role, "guard", "Forbidden")
  /\ UNCHANGED <<storeVars, tokens, pc, inflight, catalogVars, actor>>

CreateUserDtos == [email : Emails, role : Roles]
UpdateUserDtos == [email : Emails \cup {NoEmail}, role : Roles \cup {NoRole}]
ArticleDtos == [isPublished : BOOLEAN, refsFound : BOOLEAN]
\* the fields of a record's owner are no part of an update payload (authorId
\* 0: the field is absent)
UpdateArticleDtos ==
  [hasIsPublished : BOOLEAN, isPublished : BOOLEAN, refsFound : BOOLEAN,
   hasAuthorId : {FALSE}, authorId : {0}]
CommentDtos == [articleId : ArticleIds, text : Texts]
UpdateCommentDtos == [text : Texts]

\* JwtAuthGuard / JwtStrategy.validate: the bearer token of the request
\* becomes request.user
Authenticate ==
  /\ Serving
  /\ \E tok \in Tokens : actor' = tok
  /\ last' = Req("authenticate", 0, NoRole, "guard", "ok")
  /\ UNCHANGED <<storeVars, tokens, pc, inflight, catalogVars>>

\* the operations behind JwtAuthGuard and those marked @Public()
ProtectedOps ==
  {"userCreate", "userUpdate", "userRemove", "articleCreate", "articleUpdate",
   "articleRemove", "commentCreate", "commentUpdate", "commentRemove",
   "commentRemoveOwn"}
PublicOps == {"register", "login"}

\* JwtAuthGuard: a request to a protected operation that carries no token, or
\* one that does not verify, is answered 401 before any handler runs
TokenInvalid ==
  /\ Serving
  /\ \E op \in ProtectedOps :
       last' = Req(op, 0, NoRole, "guard", "Unauthorized")
  /\ actor' = NoActor
  /\ UNCHANGED <<storeVars, tokens, pc, inflight, catalogVars>>

\* POST /auth/register
AuthController_register ==
  /\ Serving
  /\ \E email \in Emails, role \in Roles \cup {NoRole} :
       AuthService_register(email, role)

\* POST /auth/login
AuthController_login ==
  /\ Serving
  /\ \E email \in Emails, passwordValid \in BOOLEAN :
       AuthService_login(email, passwordValid)

\* POST /users, @Roles('ADMIN', 'SUPER_ADMIN')
UserController_create ==
  /\ Serving
  /\ actor # NoActor
  /\ \E dto \in CreateUserDtos :
       IF RolesGuard({ADMIN, SUPER_ADMIN}, actor.role)
         THEN UserService_create(dto, actor.sub, actor.role)
         ELSE Refuse("userCreate", 0, dto.role)

\* PATCH /users/:id, @Roles('ADMIN', 'SUPER_ADMIN')
UserController_update ==
  /\ Serving
  /\ actor # NoActor
  /\ \E id \in UserIds, dto \in UpdateUserDtos :
       IF RolesGuard({ADMIN, SUPER_ADMIN}, actor.role)
         THEN UserService_update(id, dto, actor.sub, actor.role)
         ELSE Refuse("userUpdate", id, dto.role)

\* DELETE /users/:id, @Roles('SUPER_ADMIN')
UserController_remove ==
  /\ Serving
  /\ actor # NoActor
  /\ \E id \in UserIds :
       IF RolesGuard({SUPER_ADMIN}, actor.role)
         THEN UserService_remove(id, actor.sub, actor.role)
         ELSE Refuse("userRemove", id, NoRole)

\* POST /articles, @Roles('REPORTER', 'EDITOR', 'ADMIN', 'SUPER_ADMIN')
ArticleController_create ==
  /\ Serving
  /\ actor # NoActor
  /\ \E dto \in ArticleDtos :
       IF RolesGuard({REPORTER, EDITOR, ADMIN, SUPER_ADMIN}, actor.role)
         THEN ArticleService_create(dto, actor.sub)
         ELSE Refuse("articleCreate", 0, NoRole)

\* PATCH /articles/:id, @Roles('REPORTER', 'EDITOR', 'ADMIN', 'SUPER_ADMIN')
ArticleController_update ==
  /\ Serving
  /\ actor # NoActor
  /\ \E id \in ArticleIds, dto \in UpdateArticleDtos :
       IF RolesGuard({REPORTER, EDITOR, ADMIN, SUPER_ADMIN}, actor.role)
         THEN ArticleService_update(id, dto, actor.sub, actor.role)
         ELSE Refuse("articleUpdate", id, NoRole)

\* DELETE /articles/:id, @Roles('REPORTER', 'EDITOR', 'ADMIN', 'SUPER_ADMIN')
ArticleController_remove ==
  /\ Serving
  /\ actor # NoActor
  /\ \E id \in ArticleIds :
       IF RolesGuard({REPORTER, EDITOR, ADMIN, SUPER_ADMIN}, actor.role)
         THEN ArticleService_remove(id, actor.sub, actor.role)
         ELSE Refuse("articleRemove", id, NoRole)

\* POST /comments, no @Roles
CommentController_create ==
  /\ Serving
  /\ actor # NoActor
  /\ \E dto \in CommentDtos :
       IF RolesGuard({}, actor.role)
         THEN CommentService_create(actor.sub, dto)
         ELSE Refuse("commentCreate", 0, NoRole)

\* PATCH /comments/:id, no @Roles
CommentController_update ==
  /\ Serving
  /\ actor # NoActor
  /\ \E id \in CommentIds, dto \in UpdateCommentDtos :
       IF RolesGuard({}, actor.role)
         THEN CommentService_update(id, actor.sub, dto)
         ELSE Refuse("commentUpdate", id, NoRole)

\* DELETE /comments/:id, no @Roles: the role of the token is passed on
CommentController_remove ==
  /\ Serving
  /\ actor # NoActor
  /\ \E id \in CommentIds :
       IF RolesGuard({}, actor.role)
         THEN CommentService_remove(id, actor.sub, actor.role)
         ELSE Refuse("commentRemove", id, NoRole)

\* DELETE /comments/own/:id, no @Roles: 'USER' is passed as the role
CommentController_removeOwn ==
  /\ Serving
  /\ actor # NoActor
  /\ \E id \in CommentIds :
       IF RolesGuard({}, actor.role)
         THEN CommentService_removeBy("commentRemoveOwn", id, actor.sub, USER)
         ELSE Refuse("commentRemoveOwn", id, NoRole)

\* the roles the @Roles decorator of a handler lists; {} without @Roles
HandlerRoles(op) ==
  CASE op \in {"userCreate", "userUpdate"} -> {ADMIN, SUPER_ADMIN}
    [] op = "userRemove" -> {SUPER_ADMIN}
    [] op \in {"articleCreate", "articleUpdate", "articleRemove"} ->
         {REPORTER, EDITOR, ADMIN, SUPER_ADMIN}
    [] op \in {"categoryCreate", "categoryUpdate"} -> {ADMIN, EDITOR}
    [] op = "categoryRemove" -> {ADMIN}
    [] OTHER -> {}

\* POST /categories, @Roles(Role.ADMIN, Role.EDITOR)
CategoryController_create ==
  /\ Serving
  /\ actor # NoActor
  /\ \E dto \in CategoryDtos :
       IF RolesGuard(HandlerRoles("categoryCreate"), actor.role)
         THEN CategoryService_create(dto)
         ELSE Refuse("categoryCreate", 0, NoRole)

\* PATCH /categories/:id, @Roles(Role.ADMIN, Role.EDITOR)
CategoryController_update ==
  /\ Serving
  /\ actor # NoActor
  /\ \E id \in CategoryIds, dto \in CategoryDtos :
       IF RolesGuard(HandlerRoles("categoryUpdate"), actor.role)
         THEN CategoryService_update(id, dto)
         ELSE Refuse("categoryUpdate", id, NoRole)

\* DELETE /categories/:id, @Roles(Role.ADMIN)
CategoryController_remove ==
  /\ Serving
  /\ actor # NoActor
  /\ \E id \in CategoryIds :
       IF RolesGuard(HandlerRoles("categoryRemove"), actor.role)
         THEN CategoryService_remove(id)
         ELSE Refuse("categoryRemove", id, NoRole)

\* one step of the start-up of instance i
Boot ==
  \E i \in DOMAIN pc :
    \/ Start(i)
    \/ SeedFind(i)
    \/ SeedCreate(i)
    \/ SeedError(i)
    \/ EnsureFind(i)
    \/ EnsureCreate(i)

\* the deployment before its first start: n instances, an empty database
Deployed(n) ==
  /\ users = << >>
  /\ nextUserId = 1
  /\ articles = << >>
  /\ nextArticleId = 1
  /\ comments = << >>
  /\ nextCommentId = 1
  /\ tokens = << >>
  /\ pc = [i \in 1..n |-> "down"]
  /\ actor = NoActor
  /\ inflight = << >>
  /\ categories = << >>
  /\ newspapers = << >>
  /\ refs = << >>
  /\ viewCount = << >>
  /\ last = NoReq

Init == Deployed(1)

Next ==
  \/ Boot
  \/ AuthController_register
  \/ AuthController_login
  \/ Authenticate
  \/ UserController_create
  \/ UserController_update
  \/ UserController_remove

\* one instance and its clients, from the first start on
Spec == Init /\ [][Next]_vars

\* --------------------------------------------------- concurrent start-ups
InitBoot == Deployed(NumBoot)

NextBoot == Boot

\* NumBoot instances start against one database
SpecBoot == InitBoot /\ [][NextBoot]_vars

\* ------------------------------------------------- the services on their own
ActorRoles == Roles \cup {NoRole, UnknownRole}

\* the caller of a service method: any id with any role, absent and unknown
\* roles included
Caller ==
  /\ \E sub \in UserIds, role \in ActorRoles : actor' = Claims(sub, role)
  /\ last' = Req("caller", 0, NoRole, "guard", "ok")
  /\ UNCHANGED <<storeVars, tokens, pc, inflight, catalogVars>>

\* the database after the first start-up of one instance
Bootstrapped ==
  /\ users = (1 :> [email |-> SuperAdminEmail, role |-> SUPER_ADMIN])
  /\ nextUserId = 2
  /\ articles = << >>
  /\ nextArticleId = 1
  /\ comments = << >>
  /\ nextCommentId = 1
  /\ tokens = << >>
  /\ pc = (1 :> "up")
  /\ actor = NoActor
  /\ inflight = << >>
  /\ categories = << >>
  /\ newspapers = << >>
  /\ refs = << >>
  /\ viewCount = << >>
  /\ last = NoReq

CallRegister ==
  /\ Serving
  /\ \E email \in Emails, role \in Roles \cup {NoRole} :
       AuthService_register(email, role)

CallUserCreate ==
  /\ actor # NoActor
  /\ \E dto \in CreateUserDtos :
       UserService_create(dto, actor.sub, actor.role)

CallUserUpdate ==
  /\ actor # NoActor
  /\ \E id \in UserIds, dto \in UpdateUserDtos :
       UserService_update(id, dto, actor.sub, actor.role)

CallUserRemove ==
  /\ actor # NoActor
  /\ \E id \in UserIds : UserService_remove(id, actor.sub, actor.role)

CallArticleCreate ==
  /\ actor # NoActor
  /\ \E dto \in ArticleDtos : ArticleService_create(dto, actor.sub)

CallArticleUpdate ==
  /\ actor # NoActor
  /\ \E id \in ArticleIds, dto \in UpdateArticleDtos :
       ArticleService_update(id, dto, actor.sub, actor.role)

CallArticleRemove ==
  /\ actor # NoActor
  /\ \E id \in ArticleIds : ArticleService_remove(id, actor.sub, actor.role)

CallCommentCreate ==
  /\ actor # NoActor
  /\ \E dto \in CommentDtos : CommentService_create(actor.sub, dto)

CallCommentUpdate ==
  /\ actor # NoActor
  /\ \E id \in CommentIds, dto \in UpdateCommentDtos :
       CommentService_update(id, actor.sub, dto)

CallCommentRemove ==
  /\ actor # NoActor
  /\ \E id \in CommentIds : CommentService_remove(id, actor.sub, actor.role)

InitUsers == Bootstrapped

NextUsers ==
  \/ Caller
  \/ CallRegister
  \/ CallUserCreate
  \/ CallUserUpdate
  \/ CallUserRemove

\* AuthService.register and UserService, called with every argument
SpecUsers == InitUsers /\ [][NextUsers]_vars

InitArticles == Bootstrapped

NextArticles ==
  \/ Caller
  \/ CallRegister
  \/ CallUserRemove
  \/ CallArticleCreate
  \/ CallArticleUpdate
  \/ CallArticleRemove

\* ArticleService and UserService.remove, called with every argument
SpecArticles == InitArticles /\ [][NextArticles]_vars

InitComments == Bootstrapped

NextComments ==
  \/ Caller
  \/ CallRegister
  \/ CallArticleCreate
  \/ CallCommentCreate
  \/ CallCommentUpdate
  \/ CallCommentRemove

\* CommentService, called with every argument
SpecComments == InitComments /\ [][NextComments]_vars

InitCommentApi == Bootstrapped

NextCommentApi ==
  \/ AuthController_register
  \/ AuthController_login
  \/ Authenticate
  \/ ArticleController_create
  \/ CommentController_create
  \/ CommentController_update
  \/ CommentController_remove
  \/ CommentController_removeOwn

\* the comment endpoints and their clients, after the first start-up
SpecCommentApi == InitCommentApi /\ [][NextCommentApi]_vars

InitArticleApi == Bootstrapped

NextArticleApi ==
  \/ AuthController_register
  \/ AuthController_login
  \/ Authenticate
  \/ TokenInvalid
  \/ UserController_update
  \/ ArticleController_create
  \/ ArticleController_update
  \/ ArticleController_remove

\* the article endpoints, the user update and their clients, after the first
\* start-up
SpecArticleApi == InitArticleApi /\ [][NextArticleApi]_vars

InitOwners == Bootstrapped

NextOwners ==
  \/ AuthController_register
  \/ AuthController_login
  \/ Authenticate
  \/ ArticleController_create
  \/ ArticleController_update
  \/ CommentController_create
  \/ CommentController_update

\* creation and update of articles and comments by the clients that hold a
\* token
SpecOwners == InitOwners /\ [][NextOwners]_vars

InitRegister == Bootstrapped

NextRegister ==
  \E r \in RegisterIds :
    \/ AuthService_register_begin(r)
    \/ AuthService_register_findUnique(r)
    \/ AuthService_register_create(r)

\* NumRegister register calls that interleave their look-up and their insert
SpecRegister == InitRegister /\ [][NextRegister]_vars

InitLogin == Bootstrapped

NextLogin ==
  \/ AuthController_register
  \/ AuthController_login
  \/ Caller
  \/ CallUserRemove

\* register, login and the removal of users
SpecLogin == InitLogin /\ [][NextLogin]_vars

InitApi == Bootstrapped

NextApi ==
  \/ AuthController_register
  \/ AuthController_login
  \/ Authenticate
  \/ TokenInvalid
  \/ UserController_create
  \/ UserController_update
  \/ UserController_remove
  \/ ArticleController_create
  \/ ArticleController_update
  \/ ArticleController_remove
  \/ CommentController_create
  \/ CommentController_update
  \/ CommentController_remove
  \/ CommentController_removeOwn

\* every endpoint of users, articles and comments and their clients, after
\* the first start-up
SpecApi == InitApi /\ [][NextApi]_vars

InitCategoryApi == Bootstrapped

NextCategoryApi ==
  \/ AuthController_register
  \/ AuthController_login
  \/ Authenticate
  \/ TokenInvalid
  \/ UserController_create
  \/ CategoryController_create
  \/ CategoryController_update
  \/ CategoryController_remove

\* the category endpoints and their clients, after the first start-up
SpecCategoryApi == InitCategoryApi /\ [][NextCategoryApi]_vars

InitCategoryRace == Bootstrapped

NextCategoryRace ==
  \/ CallCategoryCreate
  \/ CategoryService_remove_findUnique
  \/ CategoryService_remove_count
  \/ CategoryService_remove_delete
  \/ ArticleService_create_category
  \/ ArticleService_create_newspaper
  \/ ArticleService_create_insert
  \/ ArticleService_update_category
  \/ ArticleService_update_newspaper
  \/ ArticleService_update_write

\* the removal of a category beside the creation and the update of articles
SpecCategoryRace == InitCategoryRace /\ [][NextCategoryRace]_vars

InitNewspaperRace == Bootstrapped

NextNewspaperRace ==
  \/ CallCategoryCreate
  \/ NewspaperService_create
  \/ NewspaperService_remove_findUnique
  \/ NewspaperService_remove_count
  \/ NewspaperService_remove_delete
  \/ ArticleService_create_category
  \/ ArticleService_create_newspaper
  \/ ArticleService_create_insert
  \/ ArticleService_update_category
  \/ ArticleService_update_newspaper
  \/ ArticleService_update_write

\* the removal of a newspaper beside the creation and the update of articles
SpecNewspaperRace == InitNewspaperRace /\ [][NextNewspaperRace]_vars

InitViews == Bootstrapped

NextViews ==
  \/ AuthController_login
  \/ Authenticate
  \/ CallCategoryCreate
  \/ ArticleService_create_category
  \/ ArticleService_create_newspaper
  \/ ArticleService_create_insert
  \/ ArticleController_remove
  \/ ArticleService_findOne_findUnique
  \/ ArticleService_findOne_update
  \/ ArticleService_findBySlug_findUnique
  \/ ArticleService_findBySlug_update

\* the reads of articles beside their creation and their removal
SpecViews == InitViews /\ [][NextViews]_vars

\* ------------------------------------------------------------- properties
\* C1: in every reachable state the identity store holds at most one
\* identity with role SUPER_ADMIN, over start-ups interleaved with register,
\* user create, user update and user delete.
AtMostOneSuperAdmin == Cardinality(SuperAdmins) <= 1

\* C2: when the start-ups of several instances interleave on an initially
\* empty store, at most one SUPER_ADMIN is ever stored, and an insert that
\* comes after another instance's insert fails on the unique e-mail and
\* stores nothing.
BootRaceCreatesOne ==
  /\ [](Cardinality(SuperAdmins) <= 1)
  /\ [][(/\ last'.op \in {"seedCreate", "ensureCreate"}
         /\ SuperAdmins # {})
        => (/\ last'.outcome = "Conflict"
            /\ users' = users)]_vars

\* an insert of the start-up lost the race: the account of another instance
\* is in the store and the insert failed on the unique e-mail
BootRaceLost ==
  /\ last.op \in {"seedCreate", "ensureCreate"}
  /\ last.outcome = "Conflict"
  /\ Cardinality(SuperAdmins) = 1

\* C3: AuthService.register, UserService.create and UserService.update leave
\* the set of identities with role SUPER_ADMIN as it was, for every actor and
\* every payload.
NoApiSuperAdmin ==
  [][last'.op \in {"register", "userCreate", "userUpdate"}
     => SuperAdmins' = SuperAdmins]_vars

\* a SUPER_ADMIN asked to promote another identity to SUPER_ADMIN and was
\* refused
PromotionRefused ==
  /\ last.op = "userUpdate"
  /\ last.role = SUPER_ADMIN
  /\ last.outcome = "Forbidden"
  /\ actor.role = SUPER_ADMIN
  /\ last.target \in DOMAIN users
  /\ last.target # actor.sub
  /\ users[last.target].role # SUPER_ADMIN

\* C4: an identity that holds SUPER_ADMIN stays in the store and keeps the
\* role through every operation of every actor.
SuperAdminStays ==
  [][\A id \in SuperAdmins :
       /\ id \in DOMAIN users'
       /\ users'[id].role = SUPER_ADMIN]_vars

\* another identity asked to delete a SUPER_ADMIN and was refused
SuperAdminDeleteRefused ==
  /\ last.op = "userRemove"
  /\ last.outcome = "Forbidden"
  /\ last.target \in SuperAdmins
  /\ last.target # actor.sub
  /\ actor.role = ADMIN

\* the pairs (actor role, target role) of the hierarchy table as stated:
\* REPORTER and USER assign nothing
StatedPairs ==
  ({SUPER_ADMIN} \X {ADMIN, EDITOR, REPORTER, USER})
    \cup ({ADMIN} \X {EDITOR, REPORTER, USER})
    \cup ({EDITOR} \X {REPORTER, USER})

\* C5 as stated: user creation is refused as forbidden exactly for the pairs
\* outside the stated table, an absent or unknown actor role included.
CreationFollowsStatedTable ==
  [][last'.op = "userCreate"
     => (last'.outcome # "Forbidden"
           <=> <<actor.role, last'.role>> \in StatedPairs)]_vars

\* the pairs user creation admits
AdmittedPairs ==
  StatedPairs
    \cup ({REPORTER} \X {USER})
    \cup ({NoRole} \X {ADMIN, EDITOR, REPORTER, USER})

\* C5: user creation is refused as forbidden exactly for the pairs outside
\* this table: SUPER_ADMIN assigns {ADMIN, EDITOR, REPORTER, USER}, ADMIN
\* {EDITOR, REPORTER, USER}, EDITOR {REPORTER, USER}, REPORTER {USER}, USER
\* nothing, an absent actor role every role but SUPER_ADMIN, an unknown actor
\* role nothing; SUPER_ADMIN is assigned by nobody. A refusal stores nothing.
CreationFollowsTable ==
  [][last'.op = "userCreate"
     => /\ last'.outcome # "Forbidden"
            <=> <<actor.role, last'.role>> \in AdmittedPairs
        /\ last'.outcome = "Forbidden" => users' = users
        /\ last'.outcome = "ok"
             => /\ last'.target \notin DOMAIN users
                /\ users'[last'.target].role = last'.role]_vars

\* a REPORTER created a USER
ReporterCreatedUser ==
  /\ last.op = "userCreate"
  /\ last.outcome = "ok"
  /\ last.role = USER
  /\ actor.role = REPORTER
  /\ last.target \in DOMAIN users
  /\ users[last.target].role = USER

\* C6: an update whose payload role differs from the stored role of the
\* target goes through if and only if the actor is SUPER_ADMIN, the stored
\* role is not SUPER_ADMIN, the new role is not SUPER_ADMIN and the target is
\* not the actor; in every other case it is refused as forbidden and stores
\* nothing. An update that goes through stores the new role unless it fails
\* on the unique e-mail.
RoleChangeRule ==
  [][(/\ last'.op = "userUpdate"
      /\ last'.target \in DOMAIN users
      /\ last'.role # NoRole
      /\ last'.role # users[last'.target].role)
     => IF /\ actor.role = SUPER_ADMIN
           /\ users[last'.target].role # SUPER_ADMIN
           /\ last'.role # SUPER_ADMIN
           /\ last'.target # actor.sub
          THEN /\ last'.outcome \in {"ok", "Conflict"}
               /\ last'.outcome = "ok"
                    => users'[last'.target].role = last'.role
               /\ last'.outcome = "Conflict" => users' = users
          ELSE /\ last'.outcome = "Forbidden"
               /\ users' = users]_vars

\* an ADMIN asked to turn an EDITOR into a USER and was refused
AdminRoleChangeRefused ==
  /\ last.op = "userUpdate"
  /\ last.outcome = "Forbidden"
  /\ last.role = USER
  /\ actor.role = ADMIN
  /\ last.target \in DOMAIN users
  /\ last.target # actor.sub
  /\ users[last.target].role = EDITOR

\* C7 as stated: the deletion of an existing identity is refused exactly
\* when the target is a SUPER_ADMIN or the actor itself, whatever the actor's
\* role, and removes the identity otherwise.
DeletionRuleAsStated ==
  [][(/\ last'.op = "userRemove"
      /\ last'.target \in DOMAIN users)
     => IF \/ users[last'.target].role = SUPER_ADMIN
           \/ last'.target = actor.sub
          THEN /\ last'.outcome = "Forbidden"
               /\ users' = users
          ELSE /\ last'.outcome = "ok"
               /\ last'.target \notin DOMAIN users']_vars

\* C7: the deletion of an existing identity is refused as forbidden exactly
\* when the target is a SUPER_ADMIN or the actor itself, whatever the actor's
\* role; otherwise it removes the identity, unless the identity is the author
\* of an article: then the delete fails on the foreign key as a bad request
\* and the store stays as it was.
DeletionRule ==
  [][(/\ last'.op = "userRemove"
      /\ last'.target \in DOMAIN users)
     => IF \/ users[last'.target].role = SUPER_ADMIN
           \/ last'.target = actor.sub
          THEN /\ last'.outcome = "Forbidden"
               /\ UNCHANGED storeVars
          ELSE IF \E a \in DOMAIN articles :
                    articles[a].authorId = last'.target
          THEN /\ last'.outcome = "BadRequest"
               /\ UNCHANGED storeVars
          ELSE /\ last'.outcome = "ok"
               /\ users' = [u \in DOMAIN users \ {last'.target} |-> users[u]]
        ]_vars

\* the deletion of the author of an article by another identity failed on the
\* foreign key
AuthorDeleteFailed ==
  /\ last.op = "userRemove"
  /\ last.outcome = "BadRequest"
  /\ last.target \in DOMAIN users
  /\ last.target # actor.sub
  /\ users[last.target].role # SUPER_ADMIN
  /\ \E a \in DOMAIN articles : articles[a].authorId = last.target

\* C8: the stored role of an identity changes only in a user update that a
\* SUPER_ADMIN actor performs on another identity, and a user update that
\* carries a role and targets the actor itself leaves the store as it was.
RoleChangesOnlyBySuperAdmin ==
  [][/\ \A id \in DOMAIN users \cap DOMAIN users' :
          users'[id].role # users[id].role
            => /\ last'.op = "userUpdate"
               /\ last'.target = id
               /\ actor.role = SUPER_ADMIN
               /\ actor.sub # id
     /\ (/\ last'.op = "userUpdate"
         /\ last'.role # NoRole
         /\ last'.target = actor.sub)
        => UNCHANGED storeVars]_vars

\* a SUPER_ADMIN sent an update of its own account that carries a role and
\* was refused
OwnRoleUpdateRefused ==
  /\ last.op = "userUpdate"
  /\ last.outcome = "Forbidden"
  /\ last.role # NoRole
  /\ last.target = actor.sub
  /\ actor.role = SUPER_ADMIN
  /\ last.target \in SuperAdmins

CommentDeletionRule ==
  [][(/\ last'.op \in {"commentRemove", "commentRemoveOwn"}
      /\ last'.target \in DOMAIN comments)
     => IF \/ actor.role = SUPER_ADMIN
           \/ actor.sub = comments[last'.target].userId
           \/ /\ actor.sub \in DOMAIN users
              /\ users[actor.sub].role \in {ADMIN, EDITOR}
          THEN /\ last'.outcome = "ok"
               /\ last'.target \notin DOMAIN comments'
          ELSE /\ last'.outcome = "Forbidden"
               /\ comments' = comments]_vars
\* C12: a request of the owner of an article or a comment to update or
\* delete it is not refused, whatever role the owner holds, neither by the
\* role gate of the controller nor by the check of the service.
OwnershipSuffices ==
  [][/\ (/\ last'.op \in {"articleUpdate", "articleRemove"}
         /\ last'.target \in DOMAIN articles
         /\ articles[last'.target].authorId = actor.sub)
        => last'.outcome \notin {"Forbidden", "BadRequest"}
     /\ (/\ last'.op \in {"commentUpdate", "commentRemove",
                           "commentRemoveOwn"}
         /\ last'.target \in DOMAIN comments
         /\ comments[last'.target].userId = actor.sub)
        => last'.outcome \notin {"Forbidden", "BadRequest"}]_vars
\* C13: when an identified actor who is neither the owner nor privileged
\* asks to update or delete an article or a comment, the request ends in the
\* forbidden error and in no other kind of error.
DenialIsForbidden ==
  [][/\ (/\ last'.op \in {"articleUpdate", "articleRemove"}
         /\ last'.target \in DOMAIN articles
         /\ articles[last'.target].authorId # actor.sub
         /\ actor.role \notin {EDITOR, ADMIN, SUPER_ADMIN})
        => last'.outcome = "Forbidden"
     /\ (/\ last'.op \in {"commentUpdate", "commentRemove",
                           "commentRemoveOwn"}
         /\ last'.target \in DOMAIN comments
         /\ comments[last'.target].userId # actor.sub
         /\ actor.role \notin {EDITOR, ADMIN, SUPER_ADMIN}
         /\ \/ actor.sub \notin DOMAIN users
            \/ users[actor.sub].role \notin {EDITOR, ADMIN, SUPER_ADMIN})
        => last'.outcome = "Forbidden"]_vars
RegisterSuperAdminIsForbidden ==
  [][(last'.op = "register" /\ last'.role = SUPER_ADMIN)
     => /\ last'.outcome = "Forbidden"
        /\ users' = users]_vars

\* C15: register with role SUPER_ADMIN creates no identity and issues no
\* token, for every e-mail; it ends in the forbidden-role error when the
\* e-mail is not registered and in the duplicate-identity error when it is.
RegisterSuperAdminRefused ==
  [][(last'.op = "register" /\ last'.role = SUPER_ADMIN)
     => /\ last'.outcome = IF EmailTaken(last'.email) THEN "Conflict"
                           ELSE "Forbidden"
        /\ UNCHANGED <<storeVars, tokens>>]_vars

\* a register with role SUPER_ADMIN and an e-mail nobody holds was refused
SuperAdminRegisterRefused ==
  /\ last.op = "register"
  /\ last.role = SUPER_ADMIN
  /\ last.outcome = "Forbidden"
  /\ ~EmailTaken(last.email)
\* the register calls that ended, and those that ended in success, per e-mail
Ended(email) ==
  {r \in DOMAIN inflight :
     inflight[r].stage = "done" /\ inflight[r].email = email}
Succeeded(email) == {r \in Ended(email) : inflight[r].outcome = "ok"}
Holders(email) == {id \in DOMAIN users : users[id].email = email}

\* C16: e-mail addresses stay unique; a register with an e-mail that is
\* registered ends in the conflict error and creates nothing; of the register
\* calls with one new e-mail that interleave their look-up and their insert
\* exactly one creates the identity, and every other one ends in the conflict
\* error (or, asking for SUPER_ADMIN, in the forbidden-role error) and in no
\* other error.
RegisterRace ==
  /\ [](\A email \in Emails :
          /\ Cardinality(Holders(email)) <= 1
          /\ Cardinality(Succeeded(email))
               = IF email = SuperAdminEmail THEN 0
                 ELSE Cardinality(Holders(email))
          /\ \A r \in Ended(email) \ Succeeded(email) :
               /\ inflight[r].outcome \in {"Conflict", "Forbidden"}
               /\ inflight[r].outcome = "Forbidden"
                    => inflight[r].role = SUPER_ADMIN
               /\ inflight[r].outcome = "Conflict" => Holders(email) # {})
  /\ [][\A r \in DOMAIN inflight :
         (/\ inflight[r].stage # "done"
          /\ inflight'[r].stage = "done"
          /\ EmailTaken(inflight[r].email))
         => /\ inflight'[r].outcome = "Conflict"
            /\ UNCHANGED <<users, nextUserId, tokens>>]_vars

\* a register call found the e-mail free, another call stored it first, and
\* the insert of the first ended in the conflict error
RegisterRaceLost ==
  /\ last.op = "registerCreate"
  /\ last.outcome = "Conflict"
  /\ \E r1, r2 \in DOMAIN inflight :
       /\ r1 # r2
       /\ inflight[r1].email = inflight[r2].email
       /\ inflight[r1].outcome = "ok"
       /\ inflight[r2].outcome = "Conflict"
\* C17: a login with an e-mail no identity holds and a login with a held
\* e-mail and a wrong password both fail, every failed login gives the same
\* answer whatever the store holds (UnauthorizedException, 'Invalid
\* credentials'), and a failed login issues no token.
LoginFailuresAlike ==
  [][last'.op = "login"
     => /\ (~EmailTaken(last'.email) \/ ~last'.passwordValid)
            => last'.outcome # "ok"
        /\ last'.outcome # "ok"
            => /\ last'.outcome = "Unauthorized"
               /\ last'.message = "Invalid credentials"
               /\ tokens' = tokens]_vars

\* after a successful login, a login failed on an e-mail nobody holds
LoginUnknownEmailFailed ==
  /\ last.op = "login"
  /\ ~EmailTaken(last.email)
  /\ last.outcome = "Unauthorized"
  /\ DOMAIN tokens # {}
RequestStateMachine ==
  [][/\ last'.op \in ProtectedOps
        => /\ last'.outcome = "Unauthorized"
               => /\ last'.stage = "guard"
                  /\ actor' = NoActor
                  /\ UNCHANGED storeVars
           /\ last'.outcome # "Unauthorized" => actor # NoActor
           /\ last'.stage = "guard"
               => last'.outcome \in {"Unauthorized", "Forbidden"}
           /\ (/\ last'.op \in {"articleUpdate", "articleRemove"}
               /\ last'.stage = "service"
               /\ last'.target \in DOMAIN articles
               /\ ~ArticleAccess(last'.target, actor.sub, actor.role))
              => last'.outcome = "Forbidden"
           /\ last'.outcome = "Forbidden" => UNCHANGED storeVars
           /\ storeVars' # storeVars
               => last'.stage = "service" /\ last'.outcome = "ok"
     /\ last'.op \in PublicOps
        => last'.stage = "service" /\ actor' = NoActor]_vars
\* the operations that change or delete a user, an article or a comment, and
\* the creation of a user
MutatingOps ==
  {"userCreate", "userUpdate", "userRemove", "articleUpdate", "articleRemove",
   "commentUpdate", "commentRemove", "commentRemoveOwn"}

\* C20: whenever user create, update or remove, article update or remove, or
\* comment update or remove ends in an authentication or a policy error, the
\* users, the articles and the comments are what they were before the
\* request.
RejectedAppliesNothing ==
  [][(/\ last'.op \in MutatingOps
      /\ \/ last'.outcome \in {"Unauthorized", "Forbidden"}
         \/ /\ last'.op \in {"articleUpdate", "articleRemove"}
            /\ last'.stage = "service"
            /\ last'.target \in DOMAIN articles
            /\ ~ArticleAccess(last'.target, actor.sub, actor.role))
     => UNCHANGED storeVars]_vars

\* the service refused the update of an existing user while an article and a
\* comment are stored
UserUpdateRejected ==
  /\ last.op = "userUpdate"
  /\ last.stage = "service"
  /\ last.outcome = "Forbidden"
  /\ last.target \in DOMAIN users
  /\ DOMAIN articles # {}
  /\ DOMAIN comments # {}
\* the outcome the service gives the actor of the latest step on an existing
\* target that the policy denies to that actor, if there is such a target
DeniedOutcomes(op, role) ==
  CASE op = "userUpdate" ->
         {UpdateCheck(t, [email |-> NoEmail, role |-> role], actor.sub,
                      actor.role) : t \in DOMAIN users} \cap {"Forbidden"}
    [] op = "userRemove" ->
         {RemoveCheck(t, actor.sub, actor.role) : t \in DOMAIN users}
           \cap {"Forbidden"}
    [] op \in {"articleUpdate", "articleRemove"} ->
         {"BadRequest" : t \in {a \in DOMAIN articles :
                          ~ArticleAccess(a, actor.sub, actor.role)}}
    [] op = "commentUpdate" ->
         {"Forbidden" : t \in {c \in DOMAIN comments :
                          ~CommentUpdateAccess(c, actor.sub)}}
    [] op = "commentRemove" ->
         {"Forbidden" : t \in {c \in DOMAIN comments :
                          ~CommentRemoveAccess(c, actor.sub, actor.role)}}
    [] OTHER -> {}

\* the latest step asked a service for a target that is not stored
TargetMissing(l) ==
  /\ l.stage = "service"
  /\ \/ l.op \in {"userUpdate", "userRemove"} /\ l.target \notin DOMAIN users
     \/ /\ l.op \in {"articleUpdate", "articleRemove"}
        /\ l.target \notin DOMAIN articles
     \/ /\ l.op \in {"commentUpdate", "commentRemove"}
        /\ l.target \notin DOMAIN comments

\* C21: an actor whom the policy denies a user update or remove, an article
\* update or remove, or a comment update or remove on the stored targets gets
\* the same outcome when the target id of the request is not stored.
TargetExistenceHidden ==
  [][TargetMissing(last')
     => \A denied \in DeniedOutcomes(last'.op, last'.role) :
          last'.outcome = denied]_vars
\* C22: DELETE comments/own/:id deletes a comment only when its userId is the
\* id of the authenticated actor; for every role of the actor a request for
\* the comment of another user is rejected and the comment stays stored.
RemoveOwnOnlyOwn ==
  [][(/\ last'.op = "commentRemoveOwn"
      /\ last'.target \in DOMAIN comments
      /\ comments[last'.target].userId # actor.sub)
     => /\ last'.outcome \notin {"ok"}
        /\ comments' = comments]_vars
\* C23: every step that gives an identity the role ADMIN, EDITOR or REPORTER
\* is a step of the bootstrap or a user create or update by an authenticated
\* actor whose role holds that role in the hierarchy table; a registration
\* gives none of them.
PrivilegedRolesAssigned ==
  [][\A id \in DOMAIN users' :
       (/\ users'[id].role \in {ADMIN, EDITOR, REPORTER}
        /\ id \in DOMAIN users => users[id].role # users'[id].role)
       => \/ last'.stage = "boot"
          \/ /\ last'.op \in {"userCreate", "userUpdate"}
             /\ actor.role \in Roles
             /\ users'[id].role \in roleHierarchy[actor.role]]_vars
\* the roles whose token passes the check of an operation on the record of
\* another user when the token is as new as the stored role
PrivilegedFor(op) ==
  CASE op = "commentRemoveOwn" -> {ADMIN, EDITOR}
    [] OTHER -> {SUPER_ADMIN, ADMIN, EDITOR}

\* C24: the access decision of an article or comment update or remove is a
\* function of the claims of the token (subject id and role) and of the owner
\* of the record alone: whatever the store holds for the actor by now, the
\* request is let through exactly when the actor of the token is the owner or
\* the role of the token is a privileged one, as it was when the token was
\* issued.
AccessByToken ==
  [][/\ (/\ last'.op \in {"commentUpdate", "commentRemove",
                           "commentRemoveOwn"}
         /\ last'.stage = "service"
         /\ last'.target \in DOMAIN comments)
        => (last'.outcome = "Forbidden"
              <=> ~ \/ comments[last'.target].userId = actor.sub
                    \/ actor.role \in PrivilegedFor(last'.op))
     /\ (/\ last'.op \in {"articleUpdate", "articleRemove"}
         /\ last'.stage = "service"
         /\ last'.target \in DOMAIN articles)
        => IF \/ articles[last'.target].authorId = actor.sub
              \/ actor.role \in PrivilegedFor(last'.op)
             THEN ArticleAccess(last'.target, actor.sub, actor.role)
             ELSE last'.outcome = "BadRequest" /\ UNCHANGED articles]_vars
\* C25: the record of an identity with role SUPER_ADMIN is changed only by a
\* user update whose actor has role SUPER_ADMIN; a user update on such a
\* target by an actor of another role ends as forbidden, whatever the payload
\* carries, and the record stays as it is.
SuperAdminRecordGuarded ==
  /\ [][\A id \in DOMAIN users :
         (/\ users[id].role = SUPER_ADMIN
          /\ id \in DOMAIN users' => users'[id] # users[id])
         => last'.op = "userUpdate" /\ actor.role = SUPER_ADMIN]_vars
  /\ [][(/\ last'.op = "userUpdate"
          /\ last'.stage = "service"
          /\ last'.target \in DOMAIN users
          /\ users[last'.target].role = SUPER_ADMIN
          /\ actor.role # SUPER_ADMIN)
         => last'.outcome = "Forbidden" /\ users' = users]_vars

\* an ADMIN asked to update the SUPER_ADMIN with a payload that carries no
\* role, and was refused
AdminUpdateOfSuperAdminRefused ==
  /\ last.op = "userUpdate"
  /\ last.stage = "service"
  /\ last.outcome = "Forbidden"
  /\ last.role = NoRole
  /\ last.target \in SuperAdmins
  /\ actor.role = ADMIN
  /\ actor.sub # last.target
\* the place of a role in the order SUPER_ADMIN > ADMIN > EDITOR > REPORTER >
\* USER
Rank ==
  [r \in Roles |->
     CASE r = SUPER_ADMIN -> 5 [] r = ADMIN -> 4 [] r = EDITOR -> 3
       [] r = REPORTER -> 2 [] r = USER -> 1]

\* C26: privilege is monotone in the order of the roles: when the roles of a
\* handler refuse the actor of a request, they admit no actor of a lower role
\* either.
RoleOrderMonotone ==
  [][(/\ last'.stage = "guard"
      /\ last'.outcome = "Forbidden"
      /\ actor.role \in Roles)
     => \A r \in Roles :
          Rank[r] < Rank[actor.role]
            => ~RolesGuard(HandlerRoles(last'.op), r)]_vars
\* every stored article's categoryId names a stored category
CategoryReferencesValid ==
  \A a \in DOMAIN refs : refs[a].categoryId \in StoredCategories

\* C27: a category that has articles is not deleted: CategoryService.remove
\* ends with a conflict and deletes nothing; and whatever the interleaving of
\* remove with the creation and the update of articles, the categoryId of
\* every stored article names a stored category.
CategoryInUseKept ==
  /\ []CategoryReferencesValid
  /\ [][(/\ last'.op = "categoryRemove"
         /\ last'.stage = "service"
         /\ last'.target \in StoredCategories
         /\ ArticlesOfCategory(last'.target) # {})
        => last'.outcome = "Conflict" /\ categories' = categories]_vars
\* C28: a newspaper that has articles is never deleted and no article loses
\* its newspaper: whatever the interleaving of NewspaperService.remove with
\* the creation and the update of articles, a removal that succeeds finds no
\* article of the newspaper at the moment of the delete, and the newspaperId
\* of an article changes only by an update of that article.
NewspaperInUseKept ==
  /\ [][(/\ last'.op = "newspaperRemove"
         /\ last'.stage = "service"
         /\ last'.outcome = "ok")
        => ArticlesOfNewspaper(last'.target) = {}]_vars
  /\ [][\A a \in DOMAIN refs :
          refs'[a].newspaperId # refs[a].newspaperId
            => /\ last'.op = "articleUpdate"
               /\ last'.outcome = "ok"
               /\ last'.target = a]_vars
\* the step ends a read that returns article a to its client
ReadReturns(a) ==
  /\ last'.op \in {"findOne", "findBySlug"}
  /\ last'.stage = "service"
  /\ last'.outcome = "ok"
  /\ last'.target = a

\* C29: the viewCount of an article is 0 at its creation and grows by one with
\* every read (findOne, findBySlug) that returns the article, also when reads
\* overlap; a read that finds no article changes no counter, and nothing else
\* changes a counter, so that at every moment the counter is the number of the
\* reads of the article completed so far.
ViewCountCountsReads ==
  [][/\ \A a \in DOMAIN viewCount' \ DOMAIN viewCount : viewCount'[a] = 0
     /\ \A a \in DOMAIN viewCount \cap DOMAIN viewCount' :
          viewCount'[a] = viewCount[a] + (IF ReadReturns(a) THEN 1 ELSE 0)
     /\ \A a \in InsertedIds \ DOMAIN viewCount' : ~ReadReturns(a)]_vars
\* a start-up step of instance i ends SeedService.onModuleInit without error
EnsureCompletes(i) == pc[i] \in {"ensureFind", "ensureCreate"} /\ pc'[i] = "up"

\* C30: the start-up establishes the privileged account: when
\* SeedService.onModuleInit ends without an error the store holds a user of
\* role SUPER_ADMIN, and a start-up step on a store that already holds one
\* creates no user.
BootstrapEstablishesSuperAdmin ==
  /\ [][\A i \in DOMAIN pc : EnsureCompletes(i) => SuperAdmins' # {}]_vars
  /\ [][(last'.stage = "boot" /\ SuperAdmins # {}) => users' = users]_vars

====
